---- MODULE Spec2Model ----
(***************************************************************************)
(* ExtractTranscriptsSpider (scraper/TEDScraper/spiders/                   *)
(* ExtractTranscripts.py): for every talk of the input table, check that   *)
(* the required languages are available, fetch one transcript per required *)
(* language with a bounded number of retries, and yield one item per talk  *)
(* when all transcripts are there.  The OUTPUT file of earlier runs is     *)
(* replayed at construction so that finished talks are not requested       *)
(* again.                                                                  *)
(*                                                                         *)
(* Scrapy runs the callbacks of one spider one at a time on the reactor    *)
(* thread: every action below is one resumption of start_requests or one   *)
(* whole callback invocation.  The order in which responses come back is   *)
(* not constrained.                                                        *)
(***************************************************************************)
EXTENDS Integers, Sequences, FiniteSets, TLC

\* ------------------------------------------------------------------ bounds
MaxRows    == 2   \* rows of the input table; talk ids are 1..MaxRows
MaxChains  == 2   \* rows of the input table times required languages
MaxRetries == 2   \* MAX_RETRIES ranges over 1..MaxRetries
MaxBudget  == 1   \* MAX_TALKS, when given, ranges over 1..MaxBudget

Ids      == 1..MaxRows
AllLangs == {"en", "fr", "de"}          \* language codes the site may serve
Payloads == {"p1", "p2"}                \* transcript texts the site may serve

\* LANGUAGES arguments tried (line 31: set(LANGUAGES.split(',')))
LanguageArgs == {{"en"}, {"en", "fr"}}

\* what the talk page of a talk advertises (hreflang links, lines 86-87)
AvailableSets == {AllLangs, {"fr"}}

\* ------------------------------------------------------------------ state
VARIABLES
    \* the environment
    args,            \* constructor arguments: INPUT (the table), LANGUAGES, MAX_RETRIES, MAX_TALKS
    output,          \* the OUTPUT file: its lines (the fields __init__ reads)
    available,       \* per talk id, the languages its page advertises
    \* the spider object
    languages,       \* self.languages
    name_index,      \* self.name_index
    df,              \* self.df.index after the drop of line 69
    max_retries,     \* self.max_retries
    max_talks,       \* self.max_talks
    finished_talks,  \* the keys of self.finished_talks
    \* the engine
    pos,             \* next row start_requests will look at (Len(df)+1: exhausted)
    requests,        \* requests scheduled and not yet answered
    talk,            \* the `talk` dicts created by check_languages, by the row that made them
    emitted,         \* the items yielded in this run, in order
    \* history
    nfetch,          \* per row and language: transcript requests issued so far
    chain,           \* per row and language: how the chain of requests stands or ended
    wrong,           \* per row and language: every answer so far decoded to another language
    failed,          \* rows with a request that was not answered by the content asked for
    skipped,         \* rows skipped by check_languages in this run
    prevSkipped      \* talk ids skipped in earlier runs

envVars  == <<args, output, available>>
selfVars == <<languages, name_index, df, max_retries, max_talks, finished_talks>>
engVars  == <<pos, requests, talk, emitted>>
histVars == <<nfetch, chain, wrong, failed, skipped, prevSkipped>>
vars     == <<envVars, selfVars, engVars, histVars>>


\* ------------------------------------------------------------------ data
\* MAX_TALKS as passed on the command line: absent (None) or a number
NoMaxTalks == [given |-> FALSE, value |-> 0]
MaxTalksArgs == {NoMaxTalks} \cup {[given |-> TRUE, value |-> n] : n \in 1..MaxBudget}

\* the tables INPUT may hold: the index column of 1..MaxRows rows, up to a
\* renaming of the talk ids (a new id is the next unused number)
Tables == {t \in UNION {[1..n -> Ids] : n \in 1..MaxRows} :
              \A r \in DOMAIN t : t[r] = 1 \/ \E p \in 1..(r-1) : t[p] = t[r] \/ t[p] = t[r] - 1}

Min(S) == CHOOSE x \in S : \A y \in S : x <= y

\* the page address of a talk (line 77), the address the site answers it at
\* (response.url; the numeric form is redirected to the page named after the
\* talk, the named form is served as requested) and its last path segment
\* (line 85)
Slug(talk_id) == MaxRows + talk_id
TalkUrl(ni, talk_id) == IF ni THEN <<"talks", talk_id>> ELSE <<"talks", "view", "id", talk_id>>
ResponseUrl(ni, url) == IF ni THEN url ELSE <<"talks", Slug(url[Len(url)])>>
TalkName(ni, talk_id) == LET url == ResponseUrl(ni, TalkUrl(ni, talk_id)) IN url[Len(url)]

\* one line of the OUTPUT file, as far as __init__ reads it
Line(talk_id, talk_name) == [TALK_ID |-> talk_id, TALK_NAME |-> talk_name]

\* the OUTPUT file an earlier run over a table of the same kind left behind
OutputOf(S, ni) == {Line(id, TalkName(ni, id)) : id \in S}

\* ------------------------------------------------------------------ __init__
\* line 53
MaxTalksOf(a) == IF a.MAX_TALKS.given THEN a.MAX_TALKS.value ELSE Len(a.INPUT.index)

\* ReplayKey with the branch on self.name_index lost
ReplayKey_AlwaysName(line, ni) == line.TALK_NAME

\* lines 64-67: the key under which a line of OUTPUT is marked finished
ReplayKey(line, ni) == IF ni THEN line.TALK_NAME ELSE line.TALK_ID

\* lines 55-67
FinishedFromOutput(out, ni) == {ReplayKey(line, ni) : line \in out}

\* line 69
DropFinished(index, fin) == SelectSeq(index, LAMBDA id : id \notin fin)

\* lines 28-69: the fields of the constructed spider
Spider(a, out) ==
    LET ni  == a.INPUT.name_column
        fin == FinishedFromOutput(out, ni)
    IN  [languages      |-> a.LANGUAGES,
         name_index     |-> ni,
         max_retries    |-> a.MAX_RETRIES,
         max_talks      |-> MaxTalksOf(a),
         finished_talks |-> fin,
         df             |-> DropFinished(a.INPUT.index, fin)]

\* the state of a freshly constructed spider and an idle engine
Started(a, out) ==
    LET s == Spider(a, out) IN
    /\ languages = s.languages
    /\ name_index = s.name_index
    /\ df = s.df
    /\ max_retries = s.max_retries
    /\ max_talks = s.max_talks
    /\ finished_talks = s.finished_talks
    /\ pos = 1
    /\ requests = {}
    /\ talk = <<>>
    /\ emitted = <<>>
    /\ nfetch = [r \in DOMAIN s.df |-> [l \in s.languages |-> 0]]
    /\ chain = [r \in DOMAIN s.df |-> [l \in s.languages |-> "none"]]
    /\ wrong = [r \in DOMAIN s.df |-> [l \in s.languages |-> TRUE]]
    /\ failed = {}
    /\ skipped = {}

Init ==
    /\ args \in [INPUT : [name_column : BOOLEAN, index : Tables],
                 LANGUAGES : LanguageArgs,
                 MAX_RETRIES : 1..MaxRetries,
                 MAX_TALKS : MaxTalksArgs]
    /\ \E S \in SUBSET Ids : output = OutputOf(S, args.INPUT.name_column)
    /\ Len(args.INPUT.index) * Cardinality(args.LANGUAGES) <= MaxChains
    /\ available \in [Ids -> AvailableSets]
    /\ \A id \in Ids : (\A r \in DOMAIN args.INPUT.index : args.INPUT.index[r] # id)
                            => available[id] = AllLangs
    /\ Started(args, output)
    /\ prevSkipped = {}

\* ------------------------------------------------------------------ requests
\* A scheduled request: its callback and its meta dict.  `row` is the row of
\* df the request descends from; it stands for the identity of the `talk`
\* dict passed along in meta (one dict is created per check_languages call).
\* meta['finished_talks'] is always self.finished_talks itself.
CheckRequest(row, talk_id) ==
    [callback |-> "check_languages", row |-> row, talk_id |-> talk_id,
     talk_name |-> 0, language |-> "", retries |-> 0]

ParseRequest(row, talk_id, talk_name, language, retries) ==
    [callback |-> "parse_talk", row |-> row, talk_id |-> talk_id,
     talk_name |-> talk_name, language |-> language, retries |-> retries]

Count(S) == Cardinality(S)

\* ------------------------------------------------------------------ start_requests
\* line 76
MayStart(talk_id, fin, mt) == talk_id \notin fin /\ Count(fin) < mt

\* lines 71-78: one resumption of the generator.  It runs on from row `pos`,
\* passing over the rows that fail the test of line 76, to the next yield or
\* to the end of the index.
StartRequests ==
    /\ pos <= Len(df)
    /\ LET cand == {i \in pos..Len(df) : MayStart(df[i], finished_talks, max_talks)} IN
       IF cand = {}
       THEN /\ pos' = Len(df) + 1
            /\ UNCHANGED requests
       ELSE /\ pos' = Min(cand) + 1
            /\ requests' = requests \cup {CheckRequest(Min(cand), df[Min(cand)])}
    /\ UNCHANGED <<envVars, selfVars, talk, emitted, histVars>>

\* ------------------------------------------------------------------ check_languages
\* LanguagesAvailable with "some" for "all" required languages
LanguagesAvailable_Some(langs, offered) == langs \cap offered # {}

\* line 90
LanguagesAvailable(langs, offered) == langs \subseteq offered

\* line 91
NewTalk == [data |-> <<>>, languages |-> {}]

\* lines 80-97: the callback of the talk page
CheckLanguages(q) ==
    /\ q \in requests
    /\ q.callback = "check_languages"
    /\ LET talk_name == TalkName(name_index, q.talk_id) IN
       IF LanguagesAvailable(languages, available[q.talk_id])
       THEN /\ talk' = [r \in DOMAIN talk \cup {q.row} |->
                           IF r = q.row THEN NewTalk ELSE talk[r]]
            /\ requests' = (requests \ {q}) \cup
                   {ParseRequest(q.row, q.talk_id, talk_name, l, max_retries) : l \in languages}
            /\ nfetch' = [nfetch EXCEPT ![q.row] = [l \in languages |-> 1]]
            /\ chain' = [chain EXCEPT ![q.row] = [l \in languages |-> "pending"]]
            /\ UNCHANGED <<finished_talks, skipped>>
       ELSE /\ finished_talks' = finished_talks \cup {q.talk_id}
            /\ skipped' = skipped \cup {q.row}
            /\ requests' = requests \ {q}
            /\ UNCHANGED <<talk, nfetch, chain>>
    /\ UNCHANGED <<envVars, languages, name_index, df, max_retries, max_talks,
                   pos, emitted, wrong, failed, prevSkipped>>

\* ------------------------------------------------------------------ parse_talk
\* line 111
RetriesExhausted(retries) == retries = 0

\* MaxTalksReached with the test of line 115 lost: answers are never dropped
MaxTalksReached_Never(fin, mt) == FALSE

\* MaxTalksReached one talk late
MaxTalksReached_Above(fin, mt) == Count(fin) > mt

\* line 115
MaxTalksReached(fin, mt) == Count(fin) >= mt

\* IsRequired with the test of line 123 lost: any decoded language is saved
IsRequired_Any(language, langs) == TRUE

\* line 123
IsRequired(language, langs) == language \in langs

\* lines 126-127
Record(t, language, transcript) ==
    [data |-> [l \in DOMAIN t.data \cup {language} |->
                  IF l = language THEN transcript ELSE t.data[l]],
     languages |-> t.languages \cup {language}]

\* IsComplete without the first conjunct of line 129: a talk is yielded on
\* the first transcript saved
IsComplete_Any(t, talk_id, fin, langs) == talk_id \notin fin

\* IsComplete without the second conjunct of line 129
IsComplete_NoFinishedTest(t, talk_id, fin, langs) == Count(t.languages) = Count(langs)

\* line 129
IsComplete(t, talk_id, fin, langs) ==
    Count(t.languages) = Count(langs) /\ talk_id \notin fin

\* NeedsRetry with the test of line 140 never true: no request is repeated
\* once its answer was saved
NeedsRetry_Never(t, expected_language) == FALSE

\* NeedsRetry with the test of line 140 always true: a request is repeated
\* also when its answer carried the language asked for
NeedsRetry_Always(t, expected_language) == TRUE

\* line 140
NeedsRetry(t, expected_language) == expected_language \notin t.languages

\* lines 132-135.  TRANSCRIPTS is talk['data'] itself: `talk` names the dict,
\* TRANSCRIPTS holds what it contains when the item is yielded.
Item(q, t) ==
    [TALK_ID |-> q.talk_id, TALK_NAME |-> q.talk_name,
     TRANSCRIPTS |-> t.data, talk |-> q.row]

\* Retry with the retries passed on as they are
Retry_SameRetries(q) == ParseRequest(q.row, q.talk_id, q.talk_name, q.language, q.retries)

\* lines 142 and 148
Retry(q) == ParseRequest(q.row, q.talk_id, q.talk_name, q.language, q.retries - 1)

\* what the callback does with an answer in language `language` carrying
\* `transcript`: "exhausted" (111-113), "budget" (115-117), "finished"
\* (129-138), "retry" (140-142 and 145-148) or "kept" (no branch taken after
\* the transcript was saved)
Outcome(q, language, transcript) ==
    IF RetriesExhausted(q.retries) THEN "exhausted"
    ELSE IF MaxTalksReached(finished_talks, max_talks) THEN "budget"
    ELSE IF IsRequired(language, languages)
         THEN LET t == Record(talk[q.row], language, transcript) IN
              IF IsComplete(t, q.talk_id, finished_talks, languages) THEN "finished"
              ELSE IF NeedsRetry(t, q.language) THEN "retry"
              ELSE "kept"
         ELSE "retry"

\* Store with one dict shared by all talks
Store_Shared(tk, row, t) == [r \in DOMAIN tk |-> t]

\* lines 108 and 126-127: `talk` is the dict the request carries in its meta,
\* the one check_languages made for its row; the callback writes to it alone
Store(tk, row, t) == [tk EXCEPT ![row] = t]

\* lines 99-148: the callback of a transcript page that decodes to
\* (language, transcript)
ParseTalk(q, language, transcript) ==
    /\ q \in requests
    /\ q.callback = "parse_talk"
    /\ LET o == Outcome(q, language, transcript)
           saved == o \notin {"exhausted", "budget"} /\ IsRequired(language, languages)
           t == IF saved THEN Record(talk[q.row], language, transcript) ELSE talk[q.row]
       IN
       /\ talk' = Store(talk, q.row, t)
       /\ finished_talks' = IF o = "finished" THEN finished_talks \cup {q.talk_id}
                            ELSE finished_talks
       /\ emitted' = IF o = "finished" THEN Append(emitted, Item(q, t)) ELSE emitted
       /\ requests' = IF o = "retry" THEN (requests \ {q}) \cup {Retry(q)}
                      ELSE requests \ {q}
       /\ nfetch' = IF o = "retry"
                    THEN [nfetch EXCEPT ![q.row][q.language] = @ + 1]
                    ELSE nfetch
       /\ chain' = [chain EXCEPT ![q.row][q.language] = IF o = "retry" THEN "pending" ELSE o]
       /\ wrong' = [wrong EXCEPT ![q.row][q.language] = @ /\ language # q.language]
       /\ failed' = IF language # q.language THEN failed \cup {q.row} ELSE failed
    /\ UNCHANGED <<envVars, languages, name_index, df, max_retries, max_talks,
                   pos, skipped, prevSkipped>>

\* lines 119-125: the page does not decode (no __NEXT_DATA__ script, no
\* transcriptData, no ld+json script): json.loads or a subscript raises
\* after the tests of lines 111 and 115 and before anything is stored, and
\* the callback ends there.
ParseTalkRaises(q) ==
    /\ q \in requests
    /\ q.callback = "parse_talk"
    /\ requests' = requests \ {q}
    /\ chain' = [chain EXCEPT ![q.row][q.language] =
                    IF RetriesExhausted(q.retries) THEN "exhausted"
                    ELSE IF MaxTalksReached(finished_talks, max_talks) THEN "budget"
                    ELSE "raised"]
    /\ wrong' = [wrong EXCEPT ![q.row][q.language] = FALSE]
    /\ failed' = failed \cup {q.row}
    /\ UNCHANGED <<envVars, selfVars, pos, talk, emitted, nfetch, skipped, prevSkipped>>

\* The download of a request fails for good.  The requests are built without
\* an errback (lines 78, 94, 142, 148), so no callback runs for it.
DownloadFails(q) ==
    /\ q \in requests
    /\ requests' = requests \ {q}
    /\ chain' = IF q.callback = "parse_talk"
                THEN [chain EXCEPT ![q.row][q.language] = "lost"]
                ELSE chain
    /\ wrong' = IF q.callback = "parse_talk"
                THEN [wrong EXCEPT ![q.row][q.language] = FALSE]
                ELSE wrong
    /\ failed' = failed \cup {q.row}
    /\ UNCHANGED <<envVars, selfVars, pos, talk, emitted, nfetch, skipped, prevSkipped>>

\* ------------------------------------------------------------------ runs
\* the run is over: start_requests is exhausted and nothing is scheduled
Idle == pos > Len(df) /\ requests = {}

\* the lines the feed export appends to the OUTPUT file for the items of a run
Written(items) == {Line(items[i].TALK_ID, items[i].TALK_NAME) : i \in DOMAIN items}

\* The spider is run again with the same arguments once the run is over; the
\* items of the run were appended to the OUTPUT file (-o with the same path).
Restart ==
    /\ Idle
    /\ output' = output \cup Written(emitted)
    /\ LET s == Spider(args, output') IN
       /\ languages' = s.languages
       /\ name_index' = s.name_index
       /\ df' = s.df
       /\ max_retries' = s.max_retries
       /\ max_talks' = s.max_talks
       /\ finished_talks' = s.finished_talks
       /\ nfetch' = [r \in DOMAIN s.df |-> [l \in s.languages |-> 0]]
       /\ chain' = [r \in DOMAIN s.df |-> [l \in s.languages |-> "none"]]
       /\ wrong' = [r \in DOMAIN s.df |-> [l \in s.languages |-> TRUE]]
    /\ pos' = 1
    /\ requests' = {}
    /\ talk' = <<>>
    /\ emitted' = <<>>
    /\ failed' = {}
    /\ skipped' = {}
    /\ prevSkipped' = prevSkipped \cup {df[r] : r \in skipped}
    /\ UNCHANGED <<args, available>>

Next ==
    \/ StartRequests
    \/ \E q \in requests : CheckLanguages(q)
    \/ \E q \in requests, language \in AllLangs, transcript \in Payloads :
           ParseTalk(q, language, transcript)
    \/ \E q \in requests : ParseTalkRaises(q)
    \/ \E q \in requests : DownloadFails(q)
    \/ Restart

Spec == Init /\ [][Next]_vars

\* a scheduled request is answered or its download fails
Answer ==
    \/ \E q \in requests : CheckLanguages(q)
    \/ \E q \in requests, language \in AllLangs, transcript \in Payloads :
           ParseTalk(q, language, transcript)
    \/ \E q \in requests : ParseTalkRaises(q)
    \/ \E q \in requests : DownloadFails(q)

\* One run of the spider: as long as start_requests has rows left or a
\* request is scheduled, the engine goes on: it pulls start_requests or a
\* scheduled request comes to an end.
RunNext == StartRequests \/ Answer

FairSpec == Init /\ [][RunNext]_vars /\ WF_vars(RunNext)


\* ------------------------------------------------------------------ derived
Rows       == DOMAIN df
EmittedIds == {emitted[i].TALK_ID : i \in DOMAIN emitted}
OutputIds  == {line.TALK_ID : line \in output}
TableIds   == {args.INPUT.index[r] : r \in DOMAIN args.INPUT.index}

\* the requests scheduled for row r
RequestsOf(r) == {q \in requests : q.row = r}

\* ------------------------------------------------------------------ claims

\* C1: every item yielded by parse_talk carries under TRANSCRIPTS exactly the
\* required languages as keys, when it is yielded and at any later time (the
\* value is the talk's `data` dict, which keeps being written to).
C1_TranscriptKeys ==
    \A i \in DOMAIN emitted :
        /\ DOMAIN emitted[i].TRANSCRIPTS = languages
        /\ DOMAIN talk[emitted[i].talk].data = languages

\* C1 witness: an item with two required languages was yielded for a talk some
\* answers of which carried another language than the one asked for.
C1_Witness ==
    \E i \in DOMAIN emitted :
        /\ languages = {"en", "fr"}
        /\ emitted[i].talk \in failed
        /\ \E l \in languages : nfetch[emitted[i].talk][l] > 1

\* C2: no talk id is yielded twice in a run, and none that a line of the
\* replayed OUTPUT file already carries.
C2_NoDuplicateIds ==
    /\ \A i, j \in DOMAIN emitted : emitted[i].TALK_ID = emitted[j].TALK_ID => i = j
    /\ EmittedIds \cap OutputIds = {}

\* C2 witness: the table lists one talk twice, both of its `talk` dicts are
\* complete, and the talk was yielded.
C2_Witness ==
    \E r1, r2 \in DOMAIN talk :
        /\ r1 # r2
        /\ df[r1] = df[r2]
        /\ talk[r1].languages = languages
        /\ talk[r2].languages = languages
        /\ df[r1] \in EmittedIds

\* C3: no request is ever scheduled for a talk that a line of the OUTPUT file
\* carries, and when the run is over the file, the items of the run appended,
\* holds one line per talk: N + M lines for N + M talk ids.
C3_Resumable ==
    /\ \A q \in requests : q.talk_id \notin OutputIds
    /\ \A r \in Rows : df[r] \notin OutputIds
    /\ Idle => LET after == output \cup Written(emitted) IN
               /\ Cardinality(after) = Cardinality(output) + Len(emitted)
               /\ Cardinality(OutputIds \cup EmittedIds) = Cardinality(after)

\* C3 witness: a run over a table some talks of which were in the OUTPUT file
\* is over and has yielded a further talk.
C3_Witness ==
    /\ Idle
    /\ TableIds \cap OutputIds # {}
    /\ emitted # <<>>


\* the talks of df whose page offers the required languages and whose
\* requests were all answered by the content asked for
NeverFailingIds ==
    {df[r] : r \in {x \in Rows : x \notin failed /\ languages \subseteq available[df[x]]}}

\* C4: with a budget of max_talks talks and at least that many talks that
\* are eligible and never fail, the run ends with exactly max_talks talks
\* completed (lines of OUTPUT plus items of the run).
C4_ExactlyBudgetCompleted ==
    (/\ Idle
     /\ Cardinality(OutputIds) <= max_talks
     /\ Cardinality(NeverFailingIds) >= max_talks)
        => Cardinality(OutputIds \cup EmittedIds) = max_talks

\* C4, helper: the same statement for the runs in which no talk was skipped
C4_ExactlyBudgetCompleted_NoSkip ==
    skipped = {} => C4_ExactlyBudgetCompleted


\* the chain of requests for language l of row r has come to an end
Ended(r, l) == chain[r][l] \notin {"none", "pending"}

\* row r has yielded an item
HasYielded(r) == \E i \in DOMAIN emitted : emitted[i].talk = r

\* C5 as stated: a chain of requests every answer to which carried another
\* language than the one asked for ends after exactly max_retries + 1
\* requests, and the talk is not yielded.
C5_Original ==
    \A r \in Rows : \A l \in languages :
        (Ended(r, l) /\ wrong[r][l])
            => nfetch[r][l] = max_retries + 1 /\ df[r] \notin EmittedIds

\* C5 as amended: never more than max_retries + 1 requests are made for a
\* language of a row.  A chain every answer to which carried another language
\* ends after exactly max_retries + 1 requests, unless it was cut short by
\* the finished talks reaching max_talks or the language was saved from the
\* answer to a request for another language; and as long as the language was
\* not saved that way, the row yields no item.
C5_RetryBudget ==
    \A r \in Rows : \A l \in languages :
        /\ nfetch[r][l] <= max_retries + 1
        /\ chain[r][l] = "exhausted" => nfetch[r][l] = max_retries + 1
        /\ (Ended(r, l) /\ wrong[r][l] /\ chain[r][l] # "budget" /\ l \notin talk[r].languages)
               => chain[r][l] = "exhausted"
        /\ (r \in DOMAIN talk /\ wrong[r][l] /\ l \notin talk[r].languages) => ~HasYielded(r)

\* C5 witness: with MAX_RETRIES = 2, three requests were made for a language,
\* each answered in another language, and the chain has ended with the
\* language missing.
C5_Witness ==
    \E r \in Rows : \E l \in languages :
        /\ max_retries = 2
        /\ chain[r][l] = "exhausted"
        /\ wrong[r][l]
        /\ nfetch[r][l] = 3
        /\ l \notin talk[r].languages

\* the rows check_languages has been called for
Checked == skipped \cup DOMAIN talk

\* C6: check_languages schedules transcript requests exactly when every
\* required language is among those the page offers: then one request per
\* required language, with the full retries; otherwise the talk is marked
\* finished (skipped) and no transcript request is ever made for it.
C6_AvailabilityGate ==
    /\ [](\A r \in Rows :
            /\ r \in Checked =>
                  (r \in DOMAIN talk <=> languages \subseteq available[df[r]])
            /\ r \in skipped =>
                  /\ r \notin DOMAIN talk
                  /\ df[r] \in finished_talks
                  /\ \A l \in languages : nfetch[r][l] = 0
                  /\ RequestsOf(r) = {}
            /\ r \in DOMAIN talk => \A l \in languages : nfetch[r][l] >= 1)
    /\ [][\A q \in requests :
            (q.callback = "check_languages" /\ q \notin requests')
                => \/ /\ languages \subseteq available[q.talk_id]
                      /\ requests' \ requests =
                            {ParseRequest(q.row, q.talk_id, TalkName(name_index, q.talk_id),
                                          l, max_retries) : l \in languages}
                      /\ \A l \in languages : nfetch'[q.row][l] = 1
                   \/ /\ requests' \ requests = {}
                      /\ \A l \in languages : nfetch'[q.row][l] = 0
                      /\ q.row \notin DOMAIN talk'
          ]_vars

\* C6 witness: of two talks of a run, one was skipped and the other had its
\* transcripts requested.
C6_Witness ==
    \E r1 \in skipped : \E r2 \in DOMAIN talk : \A l \in languages : nfetch[r2][l] >= 1

\* C7 as stated: an answer for a talk not yet finished that arrives when the
\* finished talks have reached max_talks is still processed: saved when it
\* carries the language asked for, requested again when it does not (the
\* answer to the last retry, which is never looked at, left aside; stated
\* for the runs in which no talk was skipped).
C7_Original ==
    [][\A q \in requests : \A language \in AllLangs : \A transcript \in Payloads :
          (/\ ParseTalk(q, language, transcript)
           /\ q.retries # 0
           /\ q.talk_id \notin finished_talks
           /\ skipped = {}
           /\ Count(finished_talks) >= max_talks)
              => IF language = q.language
                 THEN /\ language \in talk'[q.row].languages
                      /\ talk'[q.row].data[language] = transcript
                 ELSE Retry(q) \in requests'
      ]_vars

\* C7 as amended: once the finished talks (lines of OUTPUT, skipped talks and
\* talks completed in the run) have reached max_talks, every transcript
\* answer is dropped: nothing is saved, nothing is yielded, nothing is
\* requested again.  The requests in flight at that moment come to nothing.
C7_HardCap ==
    [][\A q \in requests :
          (/\ q.callback = "parse_talk"
           /\ q \notin requests'
           /\ Count(finished_talks) >= max_talks)
              => /\ talk' = talk
                 /\ emitted' = emitted
                 /\ finished_talks' = finished_talks
                 /\ requests' = requests \ {q}
                 /\ nfetch' = nfetch
      ]_vars

\* C7 witness: the answer for a language of a talk that is neither finished
\* nor out of retries was dropped because max_talks was reached; the talk
\* misses that language.
C7_Witness ==
    \E r \in DOMAIN talk : \E l \in languages :
        /\ chain[r][l] = "budget"
        /\ nfetch[r][l] <= max_retries
        /\ l \notin talk[r].languages
        /\ df[r] \notin finished_talks

\* C8: the number compared with max_talks counts completed talks only (lines
\* of the replayed OUTPUT file and items of this run), never skipped ones.
C8_BudgetCountsCompletedOnly ==
    Count(finished_talks) = Cardinality(FinishedFromOutput(output, name_index) \cup EmittedIds)

\* C9: a transcript page that does not decode, or a download that fails,
\* costs the request one retry and, while retries are left, the same request
\* is made again.
C9_FailureIsRetried ==
    [][\A q \in requests :
          (/\ q.callback = "parse_talk"
           /\ ParseTalkRaises(q) \/ DownloadFails(q)
           /\ q.retries > 0
           /\ Count(finished_talks) < max_talks)
              => Retry(q) \in requests'
      ]_vars

\* C10: while max_talks is not reached, every answer that carries the
\* language asked for, that language not yet saved, is saved under it: also
\* the answer to the last retry.
C10_MatchIsSaved ==
    [][\A q \in requests : \A language \in AllLangs : \A transcript \in Payloads :
          (/\ ParseTalk(q, language, transcript)
           /\ Count(finished_talks) < max_talks
           /\ language = q.language
           /\ language \notin talk[q.row].languages)
              => /\ language \in talk'[q.row].languages
                 /\ talk'[q.row].data[language] = transcript
      ]_vars

\* C10, helper: the same statement for the answers to requests that have
\* retries left
C10_MatchIsSaved_RetriesLeft ==
    [][\A q \in requests : \A language \in AllLangs : \A transcript \in Payloads :
          (/\ ParseTalk(q, language, transcript)
           /\ q.retries # 0
           /\ Count(finished_talks) < max_talks
           /\ language = q.language
           /\ language \notin talk[q.row].languages)
              => /\ language \in talk'[q.row].languages
                 /\ talk'[q.row].data[language] = transcript
      ]_vars

\* an answer is dropped unread: by line 111 or by line 115
Dropped(q) == RetriesExhausted(q.retries) \/ Count(finished_talks) >= max_talks

\* C11 as stated: an answer that carries another language than the one asked
\* for never changes a talk's saved transcripts and never completes a talk,
\* also when the language it carries is another required one.
C11_Original ==
    [][\A q \in requests : \A language \in AllLangs : \A transcript \in Payloads :
          (/\ ParseTalk(q, language, transcript)
           /\ language # q.language)
              => /\ talk' = talk
                 /\ emitted' = emitted
                 /\ finished_talks' = finished_talks
      ]_vars

\* C11 as amended: an answer that carries another language than the one asked
\* for is dropped with no effect when the request is out of retries or
\* max_talks is reached.  Otherwise, when the language it carries is not a
\* required one, nothing is saved or completed and the request is made again
\* with one retry less; when it is another required language, the transcript
\* is saved under the language it carries, which completes the talk when it
\* was the last one missing, and the request is made again with one retry
\* less exactly when the language asked for is still missing.
C11_MismatchEffects ==
    [][\A q \in requests : \A language \in AllLangs : \A transcript \in Payloads :
          (/\ ParseTalk(q, language, transcript)
           /\ language # q.language)
              => /\ (Dropped(q) \/ language \notin languages)
                        => /\ talk' = talk
                           /\ emitted' = emitted
                           /\ finished_talks' = finished_talks
                 /\ Dropped(q) => requests' = requests \ {q}
                 /\ (~Dropped(q) /\ language \notin languages)
                        => requests' = (requests \ {q}) \cup {Retry(q)}
                 /\ (~Dropped(q) /\ language \in languages)
                        => /\ talk'[q.row].languages = talk[q.row].languages \cup {language}
                           /\ talk'[q.row].data[language] = transcript
                           /\ \A l \in talk[q.row].languages \ {language} :
                                  talk'[q.row].data[l] = talk[q.row].data[l]
                           /\ (emitted' # emitted)
                                  <=> /\ talk'[q.row].languages = languages
                                      /\ q.talk_id \notin finished_talks
                           /\ requests' = (requests \ {q}) \cup
                                  (IF q.language \notin talk'[q.row].languages
                                   THEN {Retry(q)} ELSE {})
      ]_vars

\* C11 witness: a talk was yielded one language of which was never answered
\* by the request made for it: it was saved from the answer to the request
\* for another language, and that request was made again.
C11_Witness ==
    \E r \in DOMAIN talk : \E l \in languages :
        /\ HasYielded(r)
        /\ wrong[r][l]
        /\ l \in talk[r].languages
        /\ \E k \in languages \ {l} : nfetch[r][k] > 1

\* C12: an answer that carries the language asked for, a transcript of that
\* language being saved already for the talk, changes nothing: not the saved
\* transcripts (which an item yielded before refers to), not the finished
\* talks, not the items yielded, and no request is made.
C12_DuplicateIsNoOp ==
    [][\A q \in requests : \A language \in AllLangs : \A transcript \in Payloads :
          (/\ ParseTalk(q, language, transcript)
           /\ language = q.language
           /\ language \in talk[q.row].languages)
              => /\ talk' = talk
                 /\ emitted' = emitted
                 /\ finished_talks' = finished_talks
                 /\ requests' = requests \ {q}
      ]_vars

\* C12, helper: what such an answer leaves alone: the languages saved, the
\* transcripts of the other languages, the finished talks, the items
\* yielded; and no request is made
C12_DuplicateKeepsKeys ==
    [][\A q \in requests : \A language \in AllLangs : \A transcript \in Payloads :
          (/\ ParseTalk(q, language, transcript)
           /\ language = q.language
           /\ language \in talk[q.row].languages)
              => /\ talk'[q.row].languages = talk[q.row].languages
                 /\ \A l \in talk[q.row].languages \ {language} :
                        talk'[q.row].data[l] = talk[q.row].data[l]
                 /\ emitted' = emitted
                 /\ finished_talks' = finished_talks
                 /\ requests' = requests \ {q}
      ]_vars

\* the step yields an item made from the `talk` dict of row r
Yields(r) == Len(emitted') > Len(emitted) /\ emitted'[Len(emitted')].talk = r

\* C13 as stated: once the requests for a language of a talk have run out of
\* retries, the talk is not yielded in the run, whatever the answers to the
\* requests for its other languages.
C13_Original ==
    [][\A r \in Rows : \A l \in languages :
          (chain[r][l] = "exhausted" /\ ~Idle) => ~Yields(r)
      ]_vars

\* C13 as amended: once the requests for a language of a talk have run out of
\* retries with the language not saved, no further request is made for it,
\* and the talk's dict is yielded only by the answer to a request for
\* another of its languages that carries the language given up (and so saves
\* it); it is not yielded as long as the language is missing.
C13_WeakestLink ==
    /\ [](\A r \in Rows : \A l \in languages :
            (chain[r][l] = "exhausted" /\ l \notin talk[r].languages) => ~HasYielded(r))
    /\ [][\A r \in Rows : \A l \in languages :
            (chain[r][l] = "exhausted" /\ l \notin talk[r].languages /\ ~Idle)
                => /\ nfetch'[r][l] = nfetch[r][l]
                   /\ \A q \in requests' : ~(q.row = r /\ q.language = l)
                   /\ Yields(r) =>
                          \E q \in RequestsOf(r) :
                              /\ q.language # l
                              /\ \E transcript \in Payloads : ParseTalk(q, l, transcript)
         ]_vars

\* C13 witness: the run is over; the requests for one language of a talk ran
\* out of retries, the language is missing, another language of the talk was
\* saved from the answer to the request made for it, and the talk was not
\* yielded.
C13_Witness ==
    \E r \in DOMAIN talk : \E l, k \in languages :
        /\ Idle
        /\ chain[r][l] = "exhausted"
        /\ l \notin talk[r].languages
        /\ k # l
        /\ chain[r][k] = "kept"
        /\ ~wrong[r][k]
        /\ ~HasYielded(r)

\* the transcript requests scheduled for language l of row r
ParseRequestsOf(r, l) ==
    {q \in requests : q.callback = "parse_talk" /\ q.row = r /\ q.language = l}

\* C14: every (talk, language) has its own retries: at most one request is
\* scheduled for it, with retries between 0 and max_retries; the first
\* request carries max_retries, and each further one carries one less than
\* the request it repeats.  The retries of a (talk, language) never go up,
\* and they go down only in the callback of that very request, when its
\* answer carries another language than the one asked for.
C14_RetriesPerChain ==
    /\ [](\A q \in requests : q.callback = "parse_talk" =>
            /\ ParseRequestsOf(q.row, q.language) = {q}
            /\ q.retries \in 0..max_retries
            /\ q.retries = max_retries - (nfetch[q.row][q.language] - 1))
    /\ [][\A p \in requests' : p.callback = "parse_talk" =>
            IF ParseRequestsOf(p.row, p.language) = {}
            THEN p.retries = max_retries
            ELSE \A q \in ParseRequestsOf(p.row, p.language) :
                    /\ p.retries <= q.retries
                    /\ p.retries < q.retries =>
                          /\ p.retries = q.retries - 1
                          /\ \E language \in AllLangs \ {q.language} :
                               \E transcript \in Payloads :
                                  ParseTalk(q, language, transcript)
         ]_vars

\* C14 witness: the request for one language of a talk is down to its last
\* retry while the request for another language of the same talk still has
\* all of them.
C14_Witness ==
    \E q1, q2 \in requests :
        /\ q1.callback = "parse_talk"
        /\ q2.callback = "parse_talk"
        /\ q1.row = q2.row
        /\ q1.language # q2.language
        /\ max_retries = 2
        /\ q1.retries = 0
        /\ q2.retries = 2

\* C15: the callback of a request of one talk leaves the `talk` dict of
\* every other row (languages and transcripts saved) and the requests
\* scheduled for it, with their retries, as they were.
C15_NoCrossTalk ==
    [][\A q \in requests :
          (q \notin requests' /\ ~Idle)
              => \A r \in Rows \ {q.row} :
                    /\ r \in DOMAIN talk => (r \in DOMAIN talk' /\ talk'[r] = talk[r])
                    /\ r \notin DOMAIN talk => r \notin DOMAIN talk'
                    /\ {p \in requests' : p.row = r} = RequestsOf(r)
                    /\ nfetch'[r] = nfetch[r]
      ]_vars

\* C15 witness: two talks are in progress at once, each with its own
\* transcript saved, one of them after a repeated request.
C15_Witness ==
    \E r1, r2 \in DOMAIN talk :
        /\ df[r1] # df[r2]
        /\ "en" \in talk[r1].languages /\ talk[r1].data["en"] = "p1"
        /\ "en" \in talk[r2].languages /\ talk[r2].data["en"] = "p2"
        /\ nfetch[r1]["en"] > 1
        /\ nfetch[r2]["en"] = 1

\* the rows start_requests has yielded a request for (line 78)
Admitted == {r \in Rows : r \in Checked \/ r \in failed \/ RequestsOf(r) # {}}

\* how a row stands: its talk was yielded; a language of it ran out of
\* retries; a request of it was dropped at line 115; a request of it ended
\* in an exception or a failed download
Completed(r)   == df[r] \in EmittedIds
Abandoned(r)   == \E l \in languages : chain[r][l] = "exhausted"
CutByBudget(r) == \E l \in languages : chain[r][l] = "budget"
Broken(r)      == \/ \E l \in languages : chain[r][l] \in {"raised", "lost"}
                  \/ r \in failed \ Checked

\* C16 as stated, its last part: when the run is over every admitted talk is
\* completed, skipped, or abandoned for a language that ran out of retries
\* (stated for the runs in which every request was answered by a page that
\* decodes).
C16_Original ==
    (Idle /\ \A r \in Rows : ~Broken(r))
        => \A r \in Admitted : Completed(r) \/ r \in skipped \/ Abandoned(r)

\* C16 as amended: never more than max_retries + 1 requests are made for a
\* language of a row, and when start_requests keeps being pulled and every
\* request comes to an end, the run is eventually over; then every admitted
\* talk is completed, skipped, abandoned for a language that ran out of
\* retries, cut off by max_talks being reached, or stopped by a page that
\* did not decode or a download that failed.
C16_Termination ==
    /\ [](\A r \in Rows : \A l \in languages : nfetch[r][l] <= max_retries + 1)
    /\ [](Idle => \A r \in Admitted :
                     \/ Completed(r) \/ r \in skipped \/ Abandoned(r)
                     \/ CutByBudget(r) \/ Broken(r))
    /\ <>Idle

\* C16 witness: a run is over in which one talk was completed and another,
\* every request of which was answered by a page that decodes, was cut off
\* by max_talks and is neither completed nor abandoned.
C16_Witness ==
    /\ Idle
    /\ emitted # <<>>
    /\ \E r \in Admitted :
          /\ CutByBudget(r)
          /\ ~Broken(r)
          /\ ~Completed(r)
          /\ ~Abandoned(r)

\* C17: a talk the table lists more than once is admitted once: of the rows
\* start_requests has yielded a request for, no two carry the same talk id.
C17_NoDoubleAdmission ==
    \A r1, r2 \in Admitted : df[r1] = df[r2] => r1 = r2

\* C18: without MAX_TALKS no answer is dropped at line 115, and once
\* start_requests has gone through the table, every talk of it that the
\* OUTPUT file did not carry has been admitted.
C18_UnboundedNeverDefers ==
    ~args.MAX_TALKS.given
        => /\ \A r \in Rows : \A l \in languages : chain[r][l] # "budget"
           /\ pos > Len(df) => \A r \in Rows : \E a \in Admitted : df[a] = df[r]

\* the talks skipped by check_languages, in this run or an earlier one
SkippedIds == prevSkipped \cup {df[r] : r \in skipped}

\* C19: a talk skipped by check_languages in one run is not requested in a
\* later run, and it never shows among the lines of OUTPUT or the items
\* yielded.
C19_SkippedNotRechecked ==
    /\ \A r \in Admitted : df[r] \notin prevSkipped
    /\ SkippedIds \cap (OutputIds \cup EmittedIds) = {}

\* C19, helper: the second half alone
C19_SkippedNeverInOutput ==
    SkippedIds \cap (OutputIds \cup EmittedIds) = {}

\* the keys replayed from the OUTPUT file (lines 55-67)
Replayed == FinishedFromOutput(output, name_index)

Max(a, b) == IF a >= b THEN a ELSE b

\* C20: an item is yielded only from a state in which fewer than max_talks
\* talks are finished, so the talks replayed from OUTPUT plus the items of
\* the run never exceed max_talks (or the number replayed, when that is
\* larger), however many talks were in progress when max_talks was reached.
C20_OutputCap ==
    /\ [](Count(Replayed) + Len(emitted) <= Max(max_talks, Count(Replayed)))
    /\ [][Len(emitted') > Len(emitted) => Count(finished_talks) < max_talks]_vars

\* C20 witness: the items of the run have brought the total to max_talks
\* while another talk was in progress; its answer was dropped and it is not
\* completed.
C20_Witness ==
    /\ Len(emitted) >= 1
    /\ Count(Replayed) + Len(emitted) = max_talks
    /\ \E r \in DOMAIN talk : CutByBudget(r) /\ ~Completed(r) /\ talk[r].languages # languages

====
